---- MODULE Spec2Model ----
(***************************************************************************)
(* Model of scoresbibm/methods/neural_nets.py: the three score-network     *)
(* factories conditional_mlp, scalar_transformer_model and                 *)
(* structured_transformer_model, and the functions they wrap.             *)
(*                                                                         *)
(* Tensors are modelled by their shape and, where the code computes on     *)
(* them itself (the conditioning step), by their elements.  The library    *)
(* collaborators (tokenizer, Fourier embedding, transformer, dense layer)  *)
(* are deterministic functions of their inputs whose values stay symbolic. *)
(***************************************************************************)
EXTENDS Integers, Sequences, FiniteSets, TLC

\* ---------------------------------------------------------------- bounds
MaxCount == 2       \* largest element count of data, data_id, condition_mask
MaxDim == 2         \* largest token_dim / condition_token_dim argument
MaxHidden == 3      \* largest num_hidden argument

TimeVals == {0, 1}                       \* diffusion times t
Modes == {"concat", "add", "none", "other"}   \* "other": any unrecognised string
MaskVals == {0, 1}                       \* condition mask entries

VARIABLES pc, kind, cfg, ret, params, inp, res, memo
vars == <<pc, kind, cfg, ret, params, inp, res, memo>>

\* ------------------------------------------------------- tensor helpers
\* Element values: a symbolic tokenizer output, the learned condition token,
\* their sum, zero, and a non-finite value (0 * inf = nan in IEEE arithmetic).
TokV(b, n, k) == <<"tok", b, n, k, 0>>
CtV(k) == <<"ct", 0, 0, k, 0>>
ZeroV == <<"zero", 0, 0, 0, 0>>
NaNV == <<"nan", 0, 0, 0, 0>>

Idx(shape) == (1..shape[1]) \X (1..shape[2]) \X (1..shape[3])
NoTensor == [shape |-> <<0, 0, 0>>, el |-> [x \in {} |-> ZeroV]]

\* numpy broadcasting of one axis: sizes agree or one of them is 1; 0 = error
Bcast(a, b) == IF a = b THEN a ELSE IF a = 1 THEN b ELSE IF b = 1 THEN a ELSE 0
\* index into an axis of size a when the result axis was broadcast
Pick(a, i) == IF a = 1 THEN 1 ELSE i

\* Mutant: the condition token is merged without the mask gating it.
MulV_NoGate(m, c) == c

\* m * c for a mask entry m and one entry c of the condition token
MulV(m, c) ==
    IF c = NaNV THEN NaNV
    ELSE IF m = 0 THEN ZeroV
    ELSE c

\* x + y for a token entry x and a gated condition-token entry y
AddV(x, y) ==
    IF y = NaNV THEN NaNV
    ELSE IF y = ZeroV THEN x
    ELSE <<"tok+ct", x[2], x[3], x[4], y[4]>>

\* Mutant: a reshape that accepts any element count.
ReshapeOK_Any(count, n) == TRUE

\* x.reshape(-1, n): row-major, so entry (b, j) is x[(b-1)*n + j]
ReshapeOK(count, n) == n > 0 /\ count % n = 0
Rows(count, n) == count \div n


\* ------------------------------------------------------------ factories
\* The closure of a factory after its body ran, before the inner function is
\* defined.  arg_* keep the caller's arguments; token_dim and
\* condition_token_dim are the rebound locals.
NoCfg ==
    [condition_mode |-> "concat", token_dim |-> 0, condition_token_dim |-> 0,
     arg_token_dim |-> 0, arg_condition_token_dim |-> 0,
     scale |-> FALSE, num_hidden |-> 0, layer_norm |-> FALSE]

\* Mutant: mode add keeps the token width it was given.
AdjustDims_AddKeepsWidth(mode, token_dim, condition_token_dim) ==
    IF mode = "none" THEN
        [token_dim |-> token_dim + condition_token_dim, condition_token_dim |-> 0]
    ELSE IF mode = "add" THEN
        [token_dim |-> token_dim, condition_token_dim |-> token_dim]
    ELSE
        [token_dim |-> token_dim, condition_token_dim |-> condition_token_dim]

\* if condition_mode == "concat" / "add" / "none": rebinding of the two widths
AdjustDims(mode, token_dim, condition_token_dim) ==
    IF mode = "concat" THEN
        [token_dim |-> token_dim, condition_token_dim |-> condition_token_dim]
    ELSE IF mode = "add" THEN
        [token_dim |-> token_dim + condition_token_dim,
         condition_token_dim |-> token_dim + condition_token_dim]
    ELSE IF mode = "none" THEN
        [token_dim |-> token_dim + condition_token_dim, condition_token_dim |-> 0]
    ELSE
        [token_dim |-> token_dim, condition_token_dim |-> condition_token_dim]

TransformerCfg(mode, td, cd, scale) ==
    LET a == AdjustDims(mode, td, cd)
    IN  [NoCfg EXCEPT !.condition_mode = mode,
                      !.token_dim = a.token_dim,
                      !.condition_token_dim = a.condition_token_dim,
                      !.arg_token_dim = td,
                      !.arg_condition_token_dim = cd,
                      !.scale = scale]

MlpCfg(num_hidden, layer_norm, scale) ==
    [NoCfg EXCEPT !.num_hidden = num_hidden, !.layer_norm = layer_norm,
                  !.scale = scale]

\* What each factory hands back to its caller.
ConditionalMlpReturn == "pair"              \* return init_fn, apply_fn
ScalarTransformerReturn == "pair"           \* return init_fn, model_fn
StructuredTransformerReturn == "None"       \* body ends after def model

\* ------------------------------------------------------------- results
NoInp ==
    [t |-> 0, batch |-> 0, nodes |-> 0, id_count |-> 0, mask |-> <<>>,
     tok_extra |-> 0]

NoRes ==
    [exc |-> "none", steps |-> <<>>, diag |-> {},
     id_shape |-> <<0, 0>>, mask_shape |-> <<0, 0>>,
     tok_out |-> NoTensor, tokens |-> NoTensor, time |-> -1,
     read_ct |-> FALSE, scale_calls |-> <<>>, returned |-> <<>>,
     out_shape |-> <<0, 0, 0>>]

NoParams == [made |-> FALSE, has_ct |-> FALSE, ct_dim |-> 0, finite |-> TRUE]

\* Mutant: the rescaling is applied a second time to its own result.
OutputScale_Twice(c, t, r) ==
    IF c.scale
    THEN [r EXCEPT !.steps = @ \o <<"output_scale_fn", "output_scale_fn">>,
                   !.scale_calls = @ \o <<[t |-> t, x |-> r.returned],
                                          [t |-> t, x |-> Append(r.returned, "scaled")]>>,
                   !.returned = @ \o <<"scaled", "scaled">>]
    ELSE [r EXCEPT !.steps = Append(@, "output_scale_fn")]

\* output_scale_fn(t, out): the caller's function when one was supplied,
\* otherwise the default lambda t, x: x
OutputScale(c, t, r) ==
    IF c.scale
    THEN [r EXCEPT !.steps = Append(@, "output_scale_fn"),
                   !.scale_calls = Append(@, [t |-> t, x |-> r.returned]),
                   !.returned = Append(@, "scaled")]
    ELSE [r EXCEPT !.steps = Append(@, "output_scale_fn")]

\* ----------------------------------------------------- conditional_mlp
\* for _ in range(num_hidden - 1): dense, add time embedding, activation,
\* then LayerNorm when layer_norm
RECURSIVE HiddenLoop(_, _)
HiddenLoop(n, layer_norm) ==
    IF n <= 0 THEN <<>>
    ELSE <<"Linear(hidden_dim)", "+time_embedding", "activation">>
         \o (IF layer_norm THEN <<"LayerNorm">> ELSE <<>>)
         \o HiddenLoop(n - 1, layer_norm)

\* Mutant: the loop runs num_hidden times instead of num_hidden - 1.
score_net_ExtraLayer(c, i) ==
    LET body == <<"concatenate", "time_embedding",
                  "Linear(hidden_dim)", "+time_embedding", "activation">>
                \o HiddenLoop(c.num_hidden, c.layer_norm)
                \o <<"Linear(output_dim)">>
        r == [NoRes EXCEPT !.steps = body, !.time = i.t,
                           !.returned = <<"Linear(output_dim)">>]
    IN  OutputScale(c, i.t, r)

\* score_net(t, x, context)
score_net(c, i) ==
    LET first == <<"concatenate", "time_embedding",
                   "Linear(hidden_dim)", "+time_embedding", "activation">>
        body == first \o HiddenLoop(c.num_hidden - 1, c.layer_norm)
                      \o <<"Linear(output_dim)">>
        r == [NoRes EXCEPT !.steps = body, !.time = i.t,
                           !.returned = <<"Linear(output_dim)">>]
    IN  OutputScale(c, i.t, r)

\* ------------------------------------------------- transformer models
\* tokenizer(data_id, data, meta_data): library code.  Its leading axes are
\* those of data broadcast against data_id; its width is the configured
\* token_dim plus whatever the tokenizer adds on its own (tok_extra).
TokenizerOut(c, i, id_rows) ==
    LET shape == <<Bcast(id_rows, i.batch), i.nodes, c.token_dim + i.tok_extra>>
    IN  [shape |-> shape,
         el |-> [x \in Idx(shape) |-> TokV(x[1], x[2], x[3])]]

\* condition_mask.reshape(-1, current_nodes, 1) * condition_token
GatedConditionToken(c, p, i, mask_rows) ==
    LET shape == <<mask_rows, i.nodes, c.condition_token_dim>>
    IN  [shape |-> shape,
         el |-> [x \in Idx(shape) |->
                    MulV(i.mask[(x[1] - 1) * i.nodes + x[2]],
                         IF p.finite THEN CtV(x[3]) ELSE NaNV)]]

\* tokens + condition_token, with numpy broadcasting
AddTokens(tokens, ct) ==
    LET shape == <<Bcast(tokens.shape[1], ct.shape[1]), tokens.shape[2],
                   Bcast(tokens.shape[3], ct.shape[3])>>
    IN  [shape |-> shape,
         el |-> [x \in Idx(shape) |->
                    AddV(tokens.el[<<Pick(tokens.shape[1], x[1]), x[2],
                                     Pick(tokens.shape[3], x[3])>>],
                         ct.el[<<Pick(ct.shape[1], x[1]), x[2],
                                 Pick(ct.shape[3], x[3])>>])]]

\* Mutant: no broadcast_to before the concatenation, which then needs equal
\* leading axes.
BroadcastToOK_Missing(tokens, ct) == ct.shape[1] = tokens.shape[1]

\* jnp.broadcast_to(condition_token, tokens.shape[:-1] + (dim,)) succeeds
BroadcastToOK(tokens, ct) ==
    ct.shape[1] = tokens.shape[1] \/ ct.shape[1] = 1

\* jnp.concatenate([tokens, broadcast condition_token], -1)
ConcatTokens(tokens, ct) ==
    LET w == tokens.shape[3]
        shape == <<tokens.shape[1], tokens.shape[2], w + ct.shape[3]>>
    IN  [shape |-> shape,
         el |-> [x \in Idx(shape) |->
                    IF x[3] <= w THEN tokens.el[x]
                    ELSE ct.el[<<Pick(ct.shape[1], x[1]), x[2], x[3] - w>>]]]

\* Mutant: the block is entered whatever the mode, and adds by default.
Conditioning_NoGuard(c, p, i, r) ==
    IF ~(p.has_ct /\ p.ct_dim = c.condition_token_dim)
    THEN [r EXCEPT !.exc = "get_parameter", !.read_ct = TRUE]
    ELSE
        LET ct == GatedConditionToken(c, p, i, r.mask_shape[1])
            r1 == [r EXCEPT !.read_ct = TRUE]
        IN  IF c.condition_mode = "concat" THEN
                IF ~BroadcastToOK(r.tokens, ct)
                THEN [r1 EXCEPT !.exc = "broadcast_to"]
                ELSE [r1 EXCEPT !.tokens = ConcatTokens(r.tokens, ct)]
            ELSE
                IF Bcast(r.tokens.shape[1], ct.shape[1]) = 0
                   \/ Bcast(r.tokens.shape[3], ct.shape[3]) = 0
                THEN [r1 EXCEPT !.exc = "add_broadcast"]
                ELSE [r1 EXCEPT !.tokens = AddTokens(r.tokens, ct)]

\* The "# Conditioning" block.  r.tokens holds the tokenizer output.
Conditioning(c, p, i, r) ==
    IF c.condition_mode = "none" THEN r
    ELSE IF ~(p.has_ct /\ p.ct_dim = c.condition_token_dim)
    THEN [r EXCEPT !.exc = "get_parameter", !.read_ct = TRUE]
    ELSE
        LET ct == GatedConditionToken(c, p, i, r.mask_shape[1])
            r1 == [r EXCEPT !.read_ct = TRUE]
        IN  IF c.condition_mode = "add" THEN
                IF Bcast(r.tokens.shape[1], ct.shape[1]) = 0
                   \/ Bcast(r.tokens.shape[3], ct.shape[3]) = 0
                THEN [r1 EXCEPT !.exc = "add_broadcast"]
                ELSE [r1 EXCEPT !.tokens = AddTokens(r.tokens, ct)]
            ELSE IF c.condition_mode = "concat" THEN
                IF ~BroadcastToOK(r.tokens, ct)
                THEN [r1 EXCEPT !.exc = "broadcast_to"]
                ELSE [r1 EXCEPT !.tokens = ConcatTokens(r.tokens, ct)]
            ELSE r1

\* Mutant: the reshape is not wrapped, so its failure leaves apply.
TryReshape_Raises(c, i, r) ==
    LET size == r.tokens.shape[1] * r.tokens.shape[2] * r.tokens.shape[3]
    IN  IF size % (i.nodes * c.token_dim) = 0
        THEN [r EXCEPT !.steps = Append(@, "try_reshape"),
                       !.diag = @ \cup {"Reshaped tokens shape"}]
        ELSE [r EXCEPT !.steps = Append(@, "try_reshape"),
                       !.exc = "reshape_tokens"]

\* try: tokens.reshape(-1, current_nodes, token_dim) except Exception: print
TryReshape(c, i, r) ==
    LET size == r.tokens.shape[1] * r.tokens.shape[2] * r.tokens.shape[3]
    IN  IF ReshapeOK(size, i.nodes * c.token_dim)
        THEN [r EXCEPT !.steps = Append(@, "try_reshape"),
                       !.diag = @ \cup {"Reshaped tokens shape"}]
        ELSE [r EXCEPT !.steps = Append(@, "try_reshape"),
                       !.diag = @ \cup {"Error reshaping tokens"}]

\* Transformer(...)(tokens, context=time, mask=edge_mask); hk.Linear(1)(h);
\* output_scale_fn(t, out); return out
Forward(c, i, r) ==
    IF r.exc # "none" THEN r
    ELSE
        LET r1 == [r EXCEPT !.steps = @ \o <<"Transformer", "Linear(1)">>,
                            !.returned = <<"Linear(1)">>,
                            !.out_shape = <<r.tokens.shape[1],
                                            r.tokens.shape[2], 1>>]
        IN  OutputScale(c, i.t, r1)

\* def model(t, data, data_id, condition_mask, meta_data, edge_mask) of the
\* factory k ("scalar" or "structured")
model(k, c, p, i) ==
    IF ~ReshapeOK(i.id_count, i.nodes)
    THEN [NoRes EXCEPT !.exc = "reshape_data_id"]
    ELSE IF ~ReshapeOK(Len(i.mask), i.nodes)
    THEN [NoRes EXCEPT !.exc = "reshape_condition_mask",
                       !.id_shape = <<Rows(i.id_count, i.nodes), i.nodes>>]
    ELSE
        LET r0 == [NoRes EXCEPT
                     !.steps = <<"reshape_data_id", "reshape_condition_mask">>,
                     !.id_shape = <<Rows(i.id_count, i.nodes), i.nodes>>,
                     !.mask_shape = <<Rows(Len(i.mask), i.nodes), i.nodes>>]
        IN  IF Bcast(r0.id_shape[1], i.batch) = 0
            THEN [r0 EXCEPT !.exc = "tokenizer"]
            ELSE
                LET tk == TokenizerOut(c, i, r0.id_shape[1])
                    r1 == [r0 EXCEPT !.steps = Append(@, "tokenizer"),
                                     !.tok_out = tk, !.tokens = tk]
                    r2 == IF k = "scalar" THEN TryReshape(c, i, r1) ELSE r1
                    r3 == [r2 EXCEPT !.steps = @ \o <<"time_embeder", "conditioning">>,
                                     !.time = i.t]
                IN  Forward(c, i, Conditioning(c, p, i, r3))

\* The parameters init_fn creates: hk.get_parameter("condition_token", ...)
\* runs unless condition_mode is "none"; RandomNormal values are finite.
InitParamsOf(k, c) ==
    [made |-> TRUE,
     has_ct |-> k # "mlp" /\ c.condition_mode # "none",
     ct_dim |-> IF k # "mlp" /\ c.condition_mode # "none"
                THEN c.condition_token_dim ELSE 0,
     finite |-> TRUE]

\* The score a call returns: the (symbolic) library functions applied to the
\* tokens, the time and the output chain; defined when no exception left apply.
Score(r) == <<r.tokens, r.time, r.returned>>

\* Mutant: the inner function rebinds token_dim on every call.
ClosureRebound(c) ==
    [c EXCEPT !.token_dim = @ + 1]

\* The closure variables after a call of the inner function: model and
\* score_net assign only to their own locals (data_id, condition_mask, tokens,
\* condition_token, h, out); token_dim and condition_token_dim are read.
ClosureAfterCall(c) == c

\* ------------------------------------------------------- state machine
\* memo remembers the outcome of the first call made with one of the probe
\* inputs since the parameters last changed (a history variable).
NoMemo ==
    [set |-> FALSE, again |-> FALSE, inp |-> NoInp, exc |-> "none",
     score |-> Score(NoRes)]

Shapes == {s \in (1..MaxCount) \X (1..MaxCount) : s[1] * s[2] <= MaxCount}

RECURSIVE SeqsOf(_, _)
SeqsOf(S, n) ==
    IF n = 0 THEN {<<>>}
    ELSE {Append(q, v) : q \in SeqsOf(S, n - 1), v \in S}

Masks == UNION {SeqsOf(MaskVals, n) : n \in 1..MaxCount}

ModelInputs ==
    {[t |-> t, batch |-> s[1], nodes |-> s[2], id_count |-> ic, mask |-> m,
      tok_extra |-> x] :
        t \in TimeVals, s \in Shapes, ic \in 1..MaxCount, m \in Masks,
        x \in {0, 1}}

MlpInputs == {[NoInp EXCEPT !.t = t] : t \in TimeVals}

IsProbe(i) ==
    i.batch <= 1 /\ i.nodes <= 1 /\ i.id_count <= 1 /\ Len(i.mask) <= 1
    /\ i.tok_extra = 0 /\ i.t = 0

Remember(m, i, r) ==
    IF ~m.set /\ IsProbe(i)
    THEN [set |-> TRUE, again |-> FALSE, inp |-> i, exc |-> r.exc,
          score |-> Score(r)]
    ELSE IF m.set /\ m.inp = i THEN [m EXCEPT !.again = TRUE]
    ELSE m

Init ==
    /\ pc = "start"
    /\ kind = "none"
    /\ cfg = NoCfg
    /\ ret = "unset"
    /\ params = NoParams
    /\ inp = NoInp
    /\ res = NoRes
    /\ memo = NoMemo

\* init_fn, apply_fn = conditional_mlp(output_dim, num_hidden=.., ...)
CallConditionalMlp ==
    /\ pc = "start"
    /\ \E nh \in 0..MaxHidden, ln \in BOOLEAN, sc \in BOOLEAN :
          cfg' = MlpCfg(nh, ln, sc)
    /\ kind' = "mlp"
    /\ ret' = ConditionalMlpReturn
    /\ pc' = "returned"
    /\ UNCHANGED <<params, inp, res, memo>>

\* scalar_transformer_model(num_nodes, token_dim=.., condition_mode=.., ...)
CallScalarTransformer ==
    /\ pc = "start"
    /\ \E mode \in Modes, td \in 1..MaxDim, cd \in 0..MaxDim, sc \in BOOLEAN :
          cfg' = TransformerCfg(mode, td, cd, sc)
    /\ kind' = "scalar"
    /\ ret' = ScalarTransformerReturn
    /\ pc' = "returned"
    /\ UNCHANGED <<params, inp, res, memo>>

\* structured_transformer_model(num_nodes, data_name_to_id, ...)
CallStructuredTransformer ==
    /\ pc = "start"
    /\ \E mode \in Modes, td \in 1..MaxDim, cd \in 0..MaxDim, sc \in BOOLEAN :
          cfg' = TransformerCfg(mode, td, cd, sc)
    /\ kind' = "structured"
    /\ ret' = StructuredTransformerReturn
    /\ pc' = "returned"
    /\ UNCHANGED <<params, inp, res, memo>>

\* The caller unpacks the pair and runs init_fn(rng, ...).
InitFn ==
    /\ pc = "returned"
    /\ ret = "pair"
    /\ params' = InitParamsOf(kind, cfg)
    /\ pc' = "ready"
    /\ UNCHANGED <<kind, cfg, ret, inp, res, memo>>

\* Unpacking None into (init_fn, apply_fn) raises TypeError in the caller.
UnpackFails ==
    /\ pc = "returned"
    /\ ret = "None"
    /\ pc' = "type_error"
    /\ UNCHANGED <<kind, cfg, ret, params, inp, res, memo>>

\* The caller passes other values for the same parameters (an optimizer
\* step); a diverged run leaves a non-finite condition token.
Train ==
    /\ pc = "ready"
    /\ params.has_ct
    /\ params.finite
    /\ params' = [params EXCEPT !.finite = FALSE]
    /\ memo' = NoMemo
    /\ UNCHANGED <<pc, kind, cfg, ret, inp, res>>

\* apply_fn(params, t, x, context) of conditional_mlp
ApplyMlp ==
    /\ pc = "ready"
    /\ kind = "mlp"
    /\ \E i \in MlpInputs :
          /\ inp' = i
          /\ res' = score_net(cfg, i)
          /\ memo' = Remember(memo, i, score_net(cfg, i))
    /\ cfg' = ClosureAfterCall(cfg)
    /\ pc' = "applied"
    /\ UNCHANGED <<kind, ret, params>>

\* model_fn(params, t, data, data_id, condition_mask) of the scalar transformer
ApplyModel ==
    /\ pc = "ready"
    /\ kind = "scalar"
    /\ \E i \in ModelInputs :
          /\ inp' = i
          /\ res' = model(kind, cfg, params, i)
          /\ memo' = Remember(memo, i, model(kind, cfg, params, i))
    /\ cfg' = ClosureAfterCall(cfg)
    /\ pc' = "applied"
    /\ UNCHANGED <<kind, ret, params>>

\* The caller takes the result (or catches the exception) and goes on.
Return ==
    /\ pc = "applied"
    /\ pc' = "ready"
    /\ inp' = NoInp
    /\ res' = NoRes
    /\ UNCHANGED <<kind, cfg, ret, params, memo>>

Next ==
    \/ CallConditionalMlp
    \/ CallScalarTransformer
    \/ CallStructuredTransformer
    \/ InitFn
    \/ UnpackFails
    \/ Train
    \/ ApplyMlp
    \/ ApplyModel
    \/ Return

Spec == Init /\ [][Next]_vars

\* ------------------------------------------------------------ helpers
\* A completed call of the scalar transformer's apply function.
ScalarCall == pc = "applied" /\ kind = "scalar"

\* The outcomes to which a statement about "the transformer apply" applies:
\* the call that ran, and the body of structured_transformer_model.model on
\* the same arguments.
Outcomes == {res, model("structured", cfg, params, inp)}

AllZero(m) == \A j \in 1..Len(m) : m[j] = 0

Count(q, v) == Cardinality({j \in 1..Len(q) : q[j] = v})

\* data_id and condition_mask hold one entry per node, for every batch
\* element or for one that is broadcast.
ValidInputs(i) ==
    /\ i.id_count \in {i.nodes, i.batch * i.nodes}
    /\ Len(i.mask) \in {i.nodes, i.batch * i.nodes}

\* -------------------------------------------------------------- claims

\* C1: each of the three factories returns a pair (init, apply); none of
\* them returns nothing.
Orig_C1 == pc = "returned" => ret = "pair"

\* C2: for valid inputs and the default output rescaling, in the modes
\* concat, add and none, the returned score has the (batch, nodes) leading
\* shape of data and one scalar per node; with a tokenizer of the configured
\* width such a call returns.
Thm_C2 ==
    (ScalarCall /\ ~cfg.scale /\ cfg.condition_mode \in {"concat", "add", "none"}
     /\ ValidInputs(inp))
    => \A r \in Outcomes :
          /\ r.exc = "none" => r.out_shape = <<inp.batch, inp.nodes, 1>>
          /\ inp.tok_extra = 0 => r.exc = "none"

Witness_C2 ==
    /\ ScalarCall /\ ~cfg.scale /\ cfg.condition_mode = "add"
    /\ ValidInputs(inp) /\ inp.batch = 2 /\ Len(inp.mask) = 1
    /\ res.exc = "none" /\ res.out_shape = <<2, 1, 1>>

\* C3 as stated: in the modes add and concat an all-zero condition mask
\* passes to the transformer the tokens the tokenizer produced, as mode none
\* does.
Orig_C3 ==
    (ScalarCall /\ cfg.condition_mode \in {"add", "concat"} /\ AllZero(inp.mask)
     /\ res.exc = "none")
    => res.tokens = res.tok_out

\* C3 amended: with a finite condition token and an all-zero mask, mode add
\* passes the tokenizer's tokens unchanged when the mask has one row or as
\* many rows as the tokens; mode concat passes them with condition_token_dim
\* zeros appended to every token.
Thm_C3 ==
    (ScalarCall /\ AllZero(inp.mask) /\ params.finite)
    => \A r \in Outcomes :
          r.exc = "none" =>
            /\ (cfg.condition_mode = "add"
                /\ r.mask_shape[1] \in {1, r.tok_out.shape[1]})
               => r.tokens = r.tok_out
            /\ cfg.condition_mode = "concat"
               => /\ r.tokens.shape = <<r.tok_out.shape[1], r.tok_out.shape[2],
                                        r.tok_out.shape[3] + cfg.condition_token_dim>>
                  /\ \A x \in Idx(r.tokens.shape) :
                        r.tokens.el[x] = IF x[3] <= r.tok_out.shape[3]
                                         THEN r.tok_out.el[x] ELSE ZeroV

Witness_C3 ==
    /\ ScalarCall /\ AllZero(inp.mask) /\ params.finite
    /\ cfg.condition_mode = "concat" /\ cfg.condition_token_dim = 2
    /\ res.exc = "none" /\ inp.batch = 2
    /\ res.tokens.shape[3] = res.tok_out.shape[3] + 2

\* C4: with condition_mode "none" no condition_token parameter is created or
\* read, and any two condition masks of the same shape give the same outcome
\* and score.
Thm_C4 ==
    /\ (params.made /\ kind = "scalar" /\ cfg.condition_mode = "none")
       => ~params.has_ct
    /\ (ScalarCall /\ cfg.condition_mode = "none")
       => \A k \in {"scalar", "structured"} :
             LET r == model(k, cfg, params, inp)
             IN  /\ ~r.read_ct
                 /\ \A m \in SeqsOf(MaskVals, Len(inp.mask)) :
                       LET r2 == model(k, cfg, params, [inp EXCEPT !.mask = m])
                       IN  r2.exc = r.exc /\ Score(r2) = Score(r)
                           /\ r2.out_shape = r.out_shape

Witness_C4 ==
    /\ ScalarCall /\ cfg.condition_mode = "none" /\ res.exc = "none"
    /\ Len(inp.mask) = 2 /\ inp.mask[1] = 1 /\ ~params.has_ct

\* C5: a supplied output-rescaling function is called exactly once per apply
\* call, on the final linear projection and the time t, and what it returns
\* is returned; without one the projection is returned unchanged.
Thm_C5 ==
    (pc = "applied")
    => \A r \in (IF kind = "mlp" THEN {res} ELSE Outcomes) :
          LET proj == IF kind = "mlp" THEN <<"Linear(output_dim)">>
                      ELSE <<"Linear(1)">>
          IN  r.exc = "none" =>
                /\ Count(r.steps, "output_scale_fn") = 1
                /\ r.steps[Len(r.steps)] = "output_scale_fn"
                /\ r.steps[Len(r.steps) - 1] = proj[1]
                /\ IF cfg.scale
                   THEN /\ r.scale_calls = <<[t |-> inp.t, x |-> proj]>>
                        /\ r.returned = Append(proj, "scaled")
                   ELSE /\ r.scale_calls = <<>>
                        /\ r.returned = proj

Witness_C5 ==
    /\ ScalarCall /\ cfg.scale /\ res.exc = "none" /\ inp.t = 1
    /\ Len(res.scale_calls) = 1

Orig_C7 ==
    ScalarCall
    => IF inp.id_count = inp.batch * inp.nodes
          /\ Len(inp.mask) = inp.batch * inp.nodes
       THEN /\ res.exc \notin {"reshape_data_id", "reshape_condition_mask"}
            /\ res.id_shape = <<inp.batch, inp.nodes>>
            /\ res.mask_shape = <<inp.batch, inp.nodes>>
       ELSE res.exc \in {"reshape_data_id", "reshape_condition_mask"}

\* C7 amended: after step (1) data_id and condition_mask have the shape
\* (count / nodes, nodes), nodes that of data and count their own element
\* count, whatever data's batch is; an input whose element count is not a
\* multiple of nodes raises in step (1), before anything else runs.
Thm_C7 ==
    ScalarCall
    => \A r \in Outcomes :
          /\ inp.id_count % inp.nodes # 0
             => r.exc = "reshape_data_id" /\ r.steps = <<>>
          /\ (inp.id_count % inp.nodes = 0 /\ Len(inp.mask) % inp.nodes # 0)
             => r.exc = "reshape_condition_mask" /\ r.steps = <<>>
          /\ (inp.id_count % inp.nodes = 0 /\ Len(inp.mask) % inp.nodes = 0)
             => /\ r.exc \notin {"reshape_data_id", "reshape_condition_mask"}
                /\ r.id_shape[2] = inp.nodes
                /\ r.id_shape[1] * inp.nodes = inp.id_count
                /\ r.mask_shape[2] = inp.nodes
                /\ r.mask_shape[1] * inp.nodes = Len(inp.mask)

Witness_C7 ==
    /\ ScalarCall /\ inp.batch = 1 /\ inp.nodes = 2
    /\ inp.id_count = 2 /\ Len(inp.mask) = 1
    /\ res.exc = "reshape_condition_mask" /\ res.id_shape = <<1, 2>>

\* C8: in the scalar transformer the wrapped reshape of the tokens changes
\* nothing but the diagnostic printed: whether it succeeds or fails the same
\* steps follow on the tokenizer's tokens, its failure never leaves apply,
\* and the outcome and score are those of the body without the reshape.
Thm_C8 ==
    (ScalarCall /\ Len(res.steps) >= 3)
    => LET size == res.tok_out.shape[1] * res.tok_out.shape[2]
                   * res.tok_out.shape[3]
           fails == size % (inp.nodes * cfg.token_dim) # 0
           plain == model("structured", cfg, params, inp)
       IN  /\ res.diag = IF fails THEN {"Error reshaping tokens"}
                         ELSE {"Reshaped tokens shape"}
           /\ SubSeq(res.steps, 1, 6) =
                 <<"reshape_data_id", "reshape_condition_mask", "tokenizer",
                   "try_reshape", "time_embeder", "conditioning">>
           /\ res.exc \in {"none", "add_broadcast", "broadcast_to"}
           /\ res.exc = plain.exc
           /\ Score(res) = Score(plain)
           /\ res.out_shape = plain.out_shape
           /\ res.exc = "none"
              => SubSeq(res.steps, 7, Len(res.steps)) =
                    <<"Transformer", "Linear(1)", "output_scale_fn">>

Witness_C8 ==
    /\ ScalarCall /\ "Error reshaping tokens" \in res.diag
    /\ res.exc = "none" /\ res.returned # <<>>

\* C9 as stated: for num_hidden >= 1 there are num_hidden hidden dense
\* layers, each adding the time embedding before its activation, then one
\* output layer; with layer_norm a normalization follows every hidden layer,
\* without it there is none.
HiddenAt(q) == {j \in 1..Len(q) : q[j] = "Linear(hidden_dim)"}

LayersOK(q, n) ==
    /\ Cardinality(HiddenAt(q)) = n
    /\ \A j \in HiddenAt(q) :
          q[j + 1] = "+time_embedding" /\ q[j + 2] = "activation"
    /\ Count(q, "Linear(output_dim)") = 1
    /\ q[Len(q) - 1] = "Linear(output_dim)"

Orig_C9 ==
    (pc = "applied" /\ kind = "mlp" /\ cfg.num_hidden >= 1)
    => /\ LayersOK(res.steps, cfg.num_hidden)
       /\ \A j \in HiddenAt(res.steps) :
             (res.steps[j + 3] = "LayerNorm") <=> cfg.layer_norm

\* C9 amended: as stated, except that with layer_norm a normalization
\* follows every hidden layer but the first (num_hidden - 1 of them).
Thm_C9 ==
    (pc = "applied" /\ kind = "mlp" /\ cfg.num_hidden >= 1)
    => /\ LayersOK(res.steps, cfg.num_hidden)
       /\ \A j \in HiddenAt(res.steps) :
             (res.steps[j + 3] = "LayerNorm")
                <=> (cfg.layer_norm /\ j # 3)
       /\ res.steps[3] = "Linear(hidden_dim)"
       /\ Count(res.steps, "LayerNorm")
             = IF cfg.layer_norm THEN cfg.num_hidden - 1 ELSE 0

Witness_C9 ==
    /\ pc = "applied" /\ kind = "mlp" /\ cfg.num_hidden = 3 /\ cfg.layer_norm
    /\ Count(res.steps, "LayerNorm") = 2

\* C10: the tokens passed to the transformer have width token_dim +
\* condition_token_dim (the factory's arguments) in the modes concat, add and
\* none; any other mode raises no error of its own, creates and reads a
\* condition_token parameter and passes the tokenizer's tokens, of width
\* token_dim, unchanged.
Known == {"concat", "add", "none"}

Thm_C10 ==
    /\ (kind \in {"scalar", "structured"} /\ cfg.condition_mode \in Known)
       => (cfg.token_dim + (IF cfg.condition_mode = "concat"
                            THEN cfg.condition_token_dim ELSE 0)
             = cfg.arg_token_dim + cfg.arg_condition_token_dim)
    /\ (ScalarCall /\ inp.tok_extra = 0)
       => \A r \in Outcomes :
             /\ (r.exc = "none" /\ cfg.condition_mode \in Known)
                => r.tokens.shape[3]
                      = cfg.arg_token_dim + cfg.arg_condition_token_dim
             /\ cfg.condition_mode \notin Known
                => /\ params.has_ct
                   /\ r.exc \in {"none", "reshape_data_id",
                                 "reshape_condition_mask", "tokenizer"}
                   /\ r.exc = "none"
                      => /\ r.read_ct
                         /\ r.tokens = r.tok_out
                         /\ r.tokens.shape[3] = cfg.arg_token_dim

Witness_C10 ==
    /\ ScalarCall /\ inp.tok_extra = 0 /\ res.exc = "none"
    /\ cfg.condition_mode = "add" /\ cfg.arg_token_dim = 1
    /\ cfg.arg_condition_token_dim = 2 /\ res.tokens.shape[3] = 3

====
